---- MODULE Spec2Model ----
(***************************************************************************)
(* Model of hooks/pre_gen_project.py: the pre-generation hook that         *)
(* validates the cookiecutter fields, one validator after the other, and   *)
(* exits with status 1 when any of them raised ValueError.                 *)
(*                                                                         *)
(* Python strings on which the code does character work (len, split,       *)
(* strip, re.match, urlparse) are sequences of one-character strings.      *)
(* Messages built with f-strings are tuples: the template followed by the  *)
(* substituted values.                                                     *)
(***************************************************************************)
EXTENDS Integers, Sequences, FiniteSets, TLC

VARIABLES cookiecutter, pc, idx, error, error_messages, log, calls,
          lookups, blocked_ms, exit_status, uncaught

vars == <<cookiecutter, pc, idx, error, error_messages, log, calls,
          lookups, blocked_ms, exit_status, uncaught>>

-----------------------------------------------------------------------------
(* Bounds of the explored inputs *)

\* longest project_name explored by SpecProjectName
MaxNameLen == 5
\* longest generated app_name explored by SpecAppName
MaxIdentLen == 3
\* largest number of comma-separated entries explored by SpecAuthors
MaxAuthors == 2

-----------------------------------------------------------------------------
(* Character classes of the regular expressions *)

Lower == {"a", "b", "c", "d", "e", "f", "g", "h", "i", "j", "k", "l", "m",
          "n", "o", "p", "q", "r", "s", "t", "u", "v", "w", "x", "y", "z"}
Upper == {"A", "B", "C", "D", "E", "F", "G", "H", "I", "J", "K", "L", "M",
          "N", "O", "P", "Q", "R", "S", "T", "U", "V", "W", "X", "Y", "Z"}
Letters == Lower \cup Upper
Digits == {"0", "1", "2", "3", "4", "5", "6", "7", "8", "9"}
\* str.strip() without argument removes whitespace
Whitespace == {" ", "\t", "\n", "\r", "\f"}

-----------------------------------------------------------------------------
(* Python string operations *)

\* s[a:b] with 1-based inclusive bounds; empty when b < a
Slice(s, a, b) == [k \in 1..(b - a + 1) |-> s[a + k - 1]]

\* index of the first element of s at or after `from` that is in set, or 0
RECURSIVE FindFrom(_, _, _)
FindFrom(s, set, from) ==
    IF from > Len(s) THEN 0
    ELSE IF s[from] \in set THEN from
    ELSE FindFrom(s, set, from + 1)

\* str.split(sep) for a one-character separator: empty tokens are kept
RECURSIVE Split(_, _)
Split(s, sep) ==
    LET k == FindFrom(s, {sep}, 1) IN
    IF k = 0 THEN <<s>>
    ELSE <<Slice(s, 1, k - 1)>> \o Split(Slice(s, k + 1, Len(s)), sep)

RECURSIVE LStrip(_)
LStrip(s) ==
    IF s # <<>> /\ s[1] \in Whitespace THEN LStrip(Tail(s)) ELSE s

RECURSIVE RStrip(_)
RStrip(s) ==
    IF s # <<>> /\ s[Len(s)] \in Whitespace
    THEN RStrip(Slice(s, 1, Len(s) - 1)) ELSE s

\* str.strip()
Strip(s) == RStrip(LStrip(s))

\* every character of a non-empty s is in set: the regex  [set]+  over all of s
AllIn(s, set) == s # <<>> /\ \A k \in 1..Len(s) : s[k] \in set

\* the candidates for the text a pattern ending in $ has to cover: $ matches
\* at the end of the string and just before a newline that ends the string
DollarCuts(s) ==
    {s} \cup (IF s # <<>> /\ s[Len(s)] = "\n"
              THEN {Slice(s, 1, Len(s) - 1)} ELSE {})

-----------------------------------------------------------------------------
(* The module constants *)

\* FOLDER_REGEX = r"^[a-zA-Z0-9_-]+$", used with re.match
FOLDER_REGEX(s) ==
    \E t \in DollarCuts(s) : AllIn(t, Letters \cup Digits \cup {"_", "-"})

\* MODULE_REGEX = r"^[_a-zA-Z][_a-zA-Z0-9]+$", used with re.match
MODULE_REGEX(s) ==
    \E t \in DollarCuts(s) :
        /\ Len(t) >= 1
        /\ t[1] \in Letters \cup {"_"}
        /\ AllIn(Tail(t), Letters \cup Digits \cup {"_"})

\* EMAIL_REGEX = r"^[a-zA-Z0-9_.+-]+@[a-zA-Z0-9-]+\.[a-zA-Z0-9-.]+$"
EMAIL_REGEX(s) ==
    \E t \in DollarCuts(s) :
        \E at \in 1..Len(t) : \E dot \in 1..Len(t) :
            /\ at < dot
            /\ t[at] = "@"
            /\ t[dot] = "."
            /\ AllIn(Slice(t, 1, at - 1),
                     Letters \cup Digits \cup {"_", ".", "+", "-"})
            /\ AllIn(Slice(t, at + 1, dot - 1), Letters \cup Digits \cup {"-"})
            /\ AllIn(Slice(t, dot + 1, Len(t)),
                     Letters \cup Digits \cup {"-", "."})

\* APP_VERSION_REGEX = r"^\d+\.\d+\.\d+$"
APP_VERSION_REGEX(s) ==
    \E t \in DollarCuts(s) :
        \E d1 \in 1..Len(t) : \E d2 \in 1..Len(t) :
            /\ d1 < d2
            /\ t[d1] = "."
            /\ t[d2] = "."
            /\ AllIn(Slice(t, 1, d1 - 1), Digits)
            /\ AllIn(Slice(t, d1 + 1, d2 - 1), Digits)
            /\ AllIn(Slice(t, d2 + 1, Len(t)), Digits)

DOCKER_HUB_API == "https://registry.hub.docker.com/v2"

\* REQ_TIMEOUT = 1000  # Milliseconds
REQ_TIMEOUT == 1000

-----------------------------------------------------------------------------
(* What a validator does: the exception that leaves it (or "none"), the    *)
(* exception's args[0], the entries it logged, the registry lookups it     *)
(* issued and the time it spent blocked in them.                           *)

LogEntry(level, msg) == [level |-> level, msg |-> msg]

Pass == [exc |-> "none", args |-> <<>>, logs |-> <<>>, reqs |-> <<>>]

\* logging.error(e_message); raise ValueError(e_message)
RaiseValueError(e_message) ==
    [exc |-> "ValueError", args |-> e_message,
     logs |-> <<LogEntry("ERROR", e_message)>>, reqs |-> <<>>]

-----------------------------------------------------------------------------
(* urllib.parse.urlparse, as far as scheme and netloc go *)

SchemeChars == Letters \cup Digits \cup {"+", "-", "."}

\* position of the ':' that ends the scheme, or 0 when url has no scheme
SchemeEnd(url) ==
    LET i == FindFrom(url, {":"}, 1) IN
    IF i > 1 /\ url[1] \in Letters /\ AllIn(Slice(url, 1, i - 1), SchemeChars)
    THEN i ELSE 0

UrlScheme(url) == Slice(url, 1, SchemeEnd(url) - 1)

UrlNetloc(url) ==
    LET rest  == Slice(url, SchemeEnd(url) + 1, Len(url))
        delim == FindFrom(rest, {"/", "?", "#"}, 3)
    IN  IF Len(rest) >= 2 /\ rest[1] = "/" /\ rest[2] = "/"
        THEN Slice(rest, 3, IF delim = 0 THEN Len(rest) ELSE delim - 1)
        ELSE <<>>

Contains(s, c) == \E k \in 1..Len(s) : s[k] = c

\* urlsplit raises ValueError("Invalid IPv6 URL") on an unbalanced bracket
InvalidIPv6(url) == Contains(UrlNetloc(url), "[") # Contains(UrlNetloc(url), "]")

-----------------------------------------------------------------------------
(* The validators *)

validate_git_base_url(git_base_url) ==
    IF InvalidIPv6(git_base_url)
    THEN [exc |-> "ValueError", args |-> <<"Invalid IPv6 URL">>,
          logs |-> <<>>, reqs |-> <<>>]
    ELSE IF ~(UrlScheme(git_base_url) # <<>> /\ UrlNetloc(git_base_url) # <<>>)
    THEN RaiseValueError(<<"Invalid git_base_url", git_base_url>>)
    ELSE Pass

\* a validate_project_name that counts words as str.split() without argument
\* does: runs of spaces separate, leading and trailing spaces are dropped
validate_project_name_words(project_name) ==
    LET words == SelectSeq(Split(project_name, " "), LAMBDA w : w # <<>>) IN
    IF Len(project_name) < 2
    THEN RaiseValueError(<<"Invalid project name", project_name,
                           "length < 2 characters">>)
    ELSE IF Len(words) > 4
    THEN RaiseValueError(<<"Invalid project name", project_name,
                           "length > 4 words)">>)
    ELSE Pass

validate_project_name(project_name) ==
    IF Len(project_name) < 2
    THEN RaiseValueError(<<"Invalid project name", project_name,
                           "length < 2 characters">>)
    ELSE IF Len(Split(project_name, " ")) > 4
    THEN RaiseValueError(<<"Invalid project name", project_name,
                           "length > 4 words)">>)
    ELSE Pass

validate_repo_name(repo_name) ==
    IF ~FOLDER_REGEX(repo_name)
    THEN RaiseValueError(<<"Invalid characters in repo_name", repo_name>>)
    ELSE Pass

\* a validate_app_name whose pattern asks for two or more following characters
validate_app_name_two_more(app_name) ==
    IF ~(MODULE_REGEX(app_name) /\ Len(app_name) # 2)
    THEN RaiseValueError(<<"Invalid package name", app_name>>)
    ELSE Pass

validate_app_name(app_name) ==
    IF ~MODULE_REGEX(app_name)
    THEN RaiseValueError(<<"Invalid package name", app_name>>)
    ELSE Pass

\* the emails of the list that EMAIL_REGEX rejects once stripped
BadEmails(author_emails) ==
    {k \in 1..Len(author_emails) : ~EMAIL_REGEX(Strip(author_emails[k]))}

Min(S) == CHOOSE m \in S : \A n \in S : m <= n

\* a validate_authors that compares the counts before it looks at the emails
validate_authors_count_first(author_email, author_name) ==
    LET author_emails == Split(author_email, ",")
        author_names  == Split(author_name, ",")
        n_authors     == Len(author_names)
        n_emails      == Len(author_emails)
    IN  IF n_emails # n_authors
        THEN RaiseValueError(<<"Authors not matching number of emails",
                               n_authors, n_emails>>)
        ELSE IF BadEmails(author_emails) # {}
        THEN RaiseValueError(<<"Invalid author_email",
                               author_emails[Min(BadEmails(author_emails))]>>)
        ELSE Pass

\* the for loop raises at the first email that does not match; the count
\* comparison is reached only when the loop ends without raising
validate_authors(author_email, author_name) ==
    LET author_emails == Split(author_email, ",")
        author_names  == Split(author_name, ",")
        n_authors     == Len(author_names)
        n_emails      == Len(author_emails)
    IN  IF BadEmails(author_emails) # {}
        THEN RaiseValueError(<<"Invalid author_email",
                               author_emails[Min(BadEmails(author_emails))]>>)
        ELSE IF n_emails # n_authors
        THEN RaiseValueError(<<"Authors not matching number of emails",
                               n_authors, n_emails>>)
        ELSE Pass

validate_app_version(app_version) ==
    IF ~APP_VERSION_REGEX(app_version)
    THEN RaiseValueError(<<"Invalid app_version", app_version>>)
    ELSE Pass

-----------------------------------------------------------------------------
(* The registry lookups of validate_docker_image *)

\* what requests.get can do: return a response with a status code, raise
\* requests.exceptions.Timeout, or raise requests.exceptions.ConnectionError
\* (connection refused, DNS failure), which is neither a Timeout nor an
\* HTTPError
StatusCodes == {200, 204, 404, 500}

Outcomes ==
    [exc : {"none"}, status_code : StatusCodes]
        \cup [exc : {"Timeout", "ConnectionError"}, status_code : {0}]

\* response.raise_for_status() raises HTTPError for 4xx and 5xx
RaisesHTTPError(r) ==
    r.exc = "none" /\ 400 <= r.status_code /\ r.status_code < 600

\* f"{DOCKER_HUB_API}/repositories/{image}/tags/{tag}"
TagUrl(image, tag) == <<DOCKER_HUB_API, "repositories", image, "tags", tag>>

\* requests reads its timeout= argument as a number of seconds
RequestsTimeoutMs(timeout) == timeout * 1000

\* requests.get(url, timeout=REQ_TIMEOUT), with what came of it
Lookup(url, r) == [url |-> url, timeout_ms |-> RequestsTimeoutMs(REQ_TIMEOUT),
                   outcome |-> r]

\* one try block of validate_docker_image: the lookup of tag, with named
\* the tag the except HTTPError branch puts in its message
TryTag(image, tag, named, r) ==
    LET url == TagUrl(image, tag)
        req == <<Lookup(url, r)>>
    IN  IF RaisesHTTPError(r)
        THEN [RaiseValueError(<<"Invalid docker image", image, named,
                                r.status_code>>) EXCEPT !.reqs = req]
        ELSE IF r.exc = "Timeout"
        THEN [Pass EXCEPT !.logs = <<LogEntry("WARNING", <<"Timeout for", url>>)>>,
                          !.reqs = req]
        ELSE IF r.exc = "ConnectionError"
        THEN [Pass EXCEPT !.exc = "ConnectionError", !.reqs = req]
        ELSE [Pass EXCEPT !.reqs = req]

\* a validate_docker_image that gives up on the registry after a timeout
validate_docker_image_stop_on_timeout(image, cpu_tag, gpu_tag, r_cpu, r_gpu) ==
    LET cpu == TryTag(image, cpu_tag, cpu_tag, r_cpu)
        gpu == TryTag(image, gpu_tag, cpu_tag, r_gpu)
    IN  IF cpu.exc # "none" \/ r_cpu.exc = "Timeout" THEN cpu
        ELSE [gpu EXCEPT !.logs = cpu.logs \o gpu.logs,
                         !.reqs = cpu.reqs \o gpu.reqs]

\* a validate_docker_image that looks both tags up whatever the first lookup
\* did, and raises for the first HTTP error status of the two
validate_docker_image_both(image, cpu_tag, gpu_tag, r_cpu, r_gpu) ==
    LET cpu == TryTag(image, cpu_tag, cpu_tag, r_cpu)
        gpu == TryTag(image, gpu_tag, cpu_tag, r_gpu)
    IN  IF cpu.exc = "ConnectionError" THEN cpu
        ELSE IF cpu.exc = "ValueError" /\ gpu.exc # "ConnectionError"
        THEN [cpu EXCEPT !.reqs = cpu.reqs \o gpu.reqs]
        ELSE [gpu EXCEPT !.logs = cpu.logs \o gpu.logs,
                         !.reqs = cpu.reqs \o gpu.reqs]

\* the cpu try block, then (unless an exception left it) the gpu try block,
\* whose message names cpu_tag
validate_docker_image(image, cpu_tag, gpu_tag, r_cpu, r_gpu) ==
    LET cpu == TryTag(image, cpu_tag, cpu_tag, r_cpu)
        gpu == TryTag(image, gpu_tag, cpu_tag, r_gpu)
    IN  IF cpu.exc # "none" THEN cpu
        ELSE [gpu EXCEPT !.logs = cpu.logs \o gpu.logs,
                         !.reqs = cpu.reqs \o gpu.reqs]

-----------------------------------------------------------------------------
(* The runner *)

validations == <<"validate_git_base_url", "validate_project_name",
                 "validate_repo_name", "validate_app_name",
                 "validate_authors", "validate_app_version",
                 "validate_docker_image">>

\* fn()
Call(fn, r_cpu, r_gpu) ==
    CASE fn = "validate_git_base_url" ->
            validate_git_base_url(cookiecutter.git_base_url)
      [] fn = "validate_project_name" ->
            validate_project_name(cookiecutter.project_name)
      [] fn = "validate_repo_name" ->
            validate_repo_name(cookiecutter.repo_name)
      [] fn = "validate_app_name" ->
            validate_app_name(cookiecutter.app_name)
      [] fn = "validate_authors" ->
            validate_authors(cookiecutter.author_email,
                             cookiecutter.author_name)
      [] fn = "validate_app_version" ->
            validate_app_version(cookiecutter.app_version)
      [] fn = "validate_docker_image" ->
            validate_docker_image(cookiecutter.docker_baseimage,
                                  cookiecutter.baseimage_tag,
                                  cookiecutter.baseimage_gpu_tag, r_cpu, r_gpu)

\* the registry outcomes a call of fn can meet: only validate_docker_image
\* issues lookups
OutcomesFor(fn) ==
    IF fn = "validate_docker_image" THEN Outcomes
    ELSE {[exc |-> "none", status_code |-> 200]}

\* the time a validator spent blocked: a lookup that times out blocks for
\* the whole timeout
RECURSIVE Blocked(_)
Blocked(reqs) ==
    IF reqs = <<>> THEN 0
    ELSE (IF Head(reqs).outcome.exc = "Timeout" THEN Head(reqs).timeout_ms ELSE 0)
         + Blocked(Tail(reqs))

\* an except clause that keeps only the latest message
ExceptValueError_latest(err) ==
    /\ error_messages' = <<err.args>>
    /\ error' = TRUE

\* except ValueError as err: error_messages.append(err.args[0]); error = True
ExceptValueError(err) ==
    /\ error_messages' = Append(error_messages, err.args)
    /\ error' = TRUE

\* one iteration of  for fn in validations.  An exception that is not a
\* ValueError leaves the loop and ends the process with a traceback and
\* exit status 1.
RunValidation ==
    /\ pc = "loop"
    /\ idx <= Len(validations)
    /\ \E r_cpu \in OutcomesFor(validations[idx]),
          r_gpu \in OutcomesFor(validations[idx]) :
         LET fn  == validations[idx]
             res == Call(fn, r_cpu, r_gpu)
         IN  /\ calls' = Append(calls, fn)
             /\ log' = log \o res.logs
             /\ lookups' = lookups \o res.reqs
             /\ blocked_ms' = blocked_ms + Blocked(res.reqs)
             /\ IF res.exc = "ValueError"
                THEN ExceptValueError(res)
                ELSE UNCHANGED <<error, error_messages>>
             /\ IF res.exc \in {"none", "ValueError"}
                THEN /\ idx' = idx + 1
                     /\ UNCHANGED <<pc, exit_status, uncaught>>
                ELSE /\ pc' = "exited"
                     /\ exit_status' = 1
                     /\ uncaught' = res.exc
                     /\ UNCHANGED idx
    /\ UNCHANGED cookiecutter

\* if error: raise SystemExit(1); otherwise the script ends normally
Report ==
    /\ pc = "loop"
    /\ idx > Len(validations)
    /\ pc' = "exited"
    /\ exit_status' = IF error THEN 1 ELSE 0
    /\ UNCHANGED <<cookiecutter, idx, error, error_messages, log, calls,
                   lookups, blocked_ms, uncaught>>

Next == RunValidation \/ Report

-----------------------------------------------------------------------------
(* The field values explored *)

\* every string over alphabet of length n or less
StringsUpTo(alphabet, n) == UNION {[1..k -> alphabet] : k \in 0..n}

\* ",".join(entries)
RECURSIVE Join(_)
Join(entries) ==
    IF Len(entries) = 1 THEN entries[1]
    ELSE entries[1] \o <<",">> \o Join(Tail(entries))

\* every comma-separated list of 1..n entries of pool
ListsUpTo(pool, n) == {Join(l) : l \in UNION {[1..k -> pool] : k \in 1..n}}

\* "https://h"
AGitBaseUrl == <<"h", "t", "t", "p", "s", ":", "/", "/", "h">>
\* "my app"
AProjectName == <<"m", "y", " ", "a", "p", "p">>
\* "my-app"
ARepoName == <<"m", "y", "-", "a", "p", "p">>
\* "my_app"
AnAppName == <<"m", "y", "_", "a", "p", "p">>
\* "a@b.co"
AnEmail == <<"a", "@", "b", ".", "c", "o">>
\* "not-an-email"
NotAnEmail == <<"n", "o", "t", "-", "a", "n", "-", "e", "m", "a", "i", "l">>
\* "A"
AName == <<"A">>
\* "1.2.3"
AnAppVersion == <<"1", ".", "2", ".", "3">>

\* the valid one, "h/p" and "h://["
GitBaseUrls == {AGitBaseUrl, <<"h", "/", "p">>, <<"h", ":", "/", "/", "[">>}
\* the valid one, "a" and "a b c d e"
ProjectNames == {AProjectName, <<"a">>, <<"a", " ", "b", " ", "c", " ", "d", " ", "e">>}
\* the valid one and "my app"
RepoNames == {ARepoName, <<"m", "y", " ", "a", "p", "p">>}
\* the valid one and "2myapp"
AppNames == {AnAppName, <<"2", "m", "y", "a", "p", "p">>}
\* the valid one, "not-an-email" and "a@b.co,a@b.co"
AuthorEmails == {AnEmail, NotAnEmail, Join(<<AnEmail, AnEmail>>)}
\* "A" and "A,A"
AuthorNames == {AName, Join(<<AName, AName>>)}
\* the valid one and "1.2"
AppVersions == {AnAppVersion, <<"1", ".", "2">>}
Images == {"ai4oshub/ai4os-dev"}
Tags == {"1.0-cpu", "1.0-gpu"}

\* "my_app2", "2myapp", "_ok", "_o" and "_"
ListedAppNames == {<<"m", "y", "_", "a", "p", "p", "2">>, <<"2", "m", "y", "a", "p", "p">>, <<"_", "o", "k">>, <<"_", "o">>, <<"_">>}

\* "a@b.co", " a@b.co ", "not-an-email" and ""
EmailEntries == {AnEmail, <<" ">> \o AnEmail \o <<" ">>, NotAnEmail, <<>>}
NameEntries == {AName}

\* the field records: the listed sets for the four fields given, and for the
\* other fields either their sets (others) or their valid value alone
Fields(project_names, app_names, author_emails, author_names, others) ==
    [git_base_url : IF others THEN GitBaseUrls ELSE {AGitBaseUrl},
     project_name : project_names,
     repo_name : IF others THEN RepoNames ELSE {ARepoName},
     app_name : app_names,
     author_email : author_emails,
     author_name : author_names,
     app_version : IF others THEN AppVersions ELSE {AnAppVersion},
     docker_baseimage : Images,
     baseimage_tag : IF others THEN Tags ELSE {"1.0-cpu"},
     baseimage_gpu_tag : IF others THEN Tags ELSE {"1.0-gpu"}]

\* the state when the script starts, its fields substituted from F
Start(F) ==
    /\ cookiecutter \in F
    /\ pc = "loop"
    /\ idx = 1
    /\ error = FALSE
    /\ error_messages = <<>>
    /\ log = <<>>
    /\ calls = <<>>
    /\ lookups = <<>>
    /\ blocked_ms = 0
    /\ exit_status = -1
    /\ uncaught = "none"

Init == Start(Fields(ProjectNames, AppNames, AuthorEmails, AuthorNames, TRUE))

Spec == Init /\ [][Next]_vars

\* every project_name over a letter and the space, MaxNameLen long or less
InitProjectName ==
    Start(Fields(StringsUpTo({"a", " "}, MaxNameLen), {AnAppName},
                 {AnEmail}, {AName}, FALSE))

SpecProjectName == InitProjectName /\ [][Next]_vars

\* the listed app names and every app_name over a small alphabet, MaxIdentLen
\* long or less
InitAppName ==
    Start(Fields({AProjectName},
                 ListedAppNames
                     \cup StringsUpTo({"_", "o", "2", "-", "\n"}, MaxIdentLen),
                 {AnEmail}, {AName}, FALSE))

SpecAppName == InitAppName /\ [][Next]_vars

\* every list of 1..MaxAuthors emails, with every list of 1..MaxAuthors names
InitAuthors ==
    Start(Fields({AProjectName}, {AnAppName},
                 ListsUpTo(EmailEntries, MaxAuthors),
                 ListsUpTo(NameEntries, MaxAuthors), FALSE))

SpecAuthors == InitAuthors /\ [][Next]_vars

-----------------------------------------------------------------------------
(* Vocabulary of the properties *)

\* fn has been called
Done(fn) == \E k \in 1..Len(calls) : calls[k] = fn

\* the for loop has ended
LoopEnded == idx > Len(validations)

\* an error entry of the log starts with template t
Logged(t) == \E k \in 1..Len(log) : log[k].level = "ERROR" /\ log[k].msg[1] = t

\* a message of the run result starts with template t
Reported(t) == \E k \in 1..Len(error_messages) : error_messages[k][1] = t

\* the validator a message of the run result comes from, by its template
Owner(msg) ==
    CASE msg[1] \in {"Invalid git_base_url", "Invalid IPv6 URL"} ->
            "validate_git_base_url"
      [] msg[1] = "Invalid project name" -> "validate_project_name"
      [] msg[1] = "Invalid characters in repo_name" -> "validate_repo_name"
      [] msg[1] = "Invalid package name" -> "validate_app_name"
      [] msg[1] \in {"Invalid author_email",
                     "Authors not matching number of emails"} ->
            "validate_authors"
      [] msg[1] = "Invalid app_version" -> "validate_app_version"
      [] msg[1] = "Invalid docker image" -> "validate_docker_image"

Owners(msgs) == [k \in 1..Len(msgs) |-> Owner(msgs[k])]

HttpErrors == SelectSeq(lookups, LAMBDA l : RaisesHTTPError(l.outcome))
TimedOut == SelectSeq(lookups, LAMBDA l : l.outcome.exc = "Timeout")
Warnings == SelectSeq(log, LAMBDA e : e.level = "WARNING")
ImageErrors ==
    SelectSeq(log, LAMBDA e : e.level = "ERROR" /\ e.msg[1] = "Invalid docker image")
ImageMessages ==
    SelectSeq(error_messages, LAMBDA m : m[1] = "Invalid docker image")

\* validator fn signals a validation failure in this run: for the base-image
\* check, a lookup it issued returned an HTTP error status
Failed(fn) ==
    IF fn = "validate_docker_image" THEN HttpErrors # <<>>
    ELSE Call(fn, [exc |-> "none", status_code |-> 200],
                  [exc |-> "none", status_code |-> 200]).exc = "ValueError"

FormatValidators == {validations[k] : k \in 1..(Len(validations) - 1)}

CpuUrl == TagUrl(cookiecutter.docker_baseimage, cookiecutter.baseimage_tag)
GpuUrl == TagUrl(cookiecutter.docker_baseimage, cookiecutter.baseimage_gpu_tag)

\* the number of elements of s equal to c
RECURSIVE CountOf(_, _)
CountOf(s, c) ==
    IF s = <<>> THEN 0
    ELSE (IF Head(s) = c THEN 1 ELSE 0) + CountOf(Tail(s), c)

-----------------------------------------------------------------------------
(* C1: when the run has ended, its exit status is 1 if and only if at least *)
(* one of the seven validators signalled a validation failure, and is 0    *)
(* otherwise.                                                              *)
C1_ExitContract ==
    pc = "exited" =>
        /\ exit_status \in {0, 1}
        /\ exit_status = 1 <=> \E k \in 1..Len(validations) : Failed(validations[k])

-----------------------------------------------------------------------------
(* C2: the runner calls the seven validators once each in the order of     *)
(* validations, whichever of them failed; when the loop has ended the      *)
(* message list holds one message per failed validator, in that order, and *)
(* the failure flag is true exactly when the list is not empty.            *)
C2_RunnerRunsAll ==
    /\ Len(calls) <= Len(validations)
    /\ calls = SubSeq(validations, 1, Len(calls))
    /\ pc = "exited" => calls = validations
    /\ LoopEnded =>
          /\ calls = validations
          /\ Owners(error_messages) = SelectSeq(validations, Failed)
          /\ error = (error_messages # <<>>)

\* the loop has ended after the first validator and two later ones failed
C2_Witness ==
    /\ LoopEnded
    /\ Len(error_messages) >= 3
    /\ Owner(error_messages[1]) = "validate_git_base_url"
    /\ ~Failed("validate_app_name")

-----------------------------------------------------------------------------
(* C3: per tag lookup, a non-error response leaves no log entry, an HTTP   *)
(* error status leaves one error entry and one message of the run result   *)
(* and sets the failure flag, a timeout leaves exactly one warning naming  *)
(* the url, no message and no flag; a timeout of the cpu lookup is         *)
(* followed by the gpu lookup.                                             *)
C3_ThreeOutcomes ==
    Done("validate_docker_image") =>
        /\ Len(Warnings) = Len(TimedOut)
        /\ \A k \in 1..Len(Warnings) :
              Warnings[k].msg = <<"Timeout for", TimedOut[k].url>>
        /\ Len(ImageErrors) = Len(HttpErrors)
        /\ Len(ImageMessages) = Len(HttpErrors)
        /\ HttpErrors # <<>> => error
        /\ HttpErrors = <<>> =>
              error = \E fn \in FormatValidators : Failed(fn)
        /\ lookups[1].outcome.exc = "Timeout" =>
              /\ Len(lookups) = 2
              /\ lookups[2].url = GpuUrl

\* the cpu lookup timed out and the gpu lookup, issued all the same, returned
\* an HTTP error status
C3_Witness ==
    /\ Done("validate_docker_image")
    /\ Len(lookups) = 2
    /\ lookups[1].outcome.exc = "Timeout"
    /\ RaisesHTTPError(lookups[2].outcome)
    /\ Len(Warnings) = 1
    /\ Reported("Invalid docker image")

-----------------------------------------------------------------------------
(* C4: no exception leaves the runner loop, whatever the registry lookups  *)
(* do (timeout, connection refused): every run reaches the final report,   *)
(* and its exit status is decided by the failure flag alone.               *)
C4_NetworkFailuresNonFatal ==
    /\ uncaught = "none"
    /\ pc = "exited" => LoopEnded /\ exit_status = (IF error THEN 1 ELSE 0)

-----------------------------------------------------------------------------
TooManyWords ==
    \E k \in 1..Len(error_messages) :
        /\ error_messages[k][1] = "Invalid project name"
        /\ error_messages[k][3] = "length > 4 words)"

TooShort ==
    \E k \in 1..Len(error_messages) :
        /\ error_messages[k][1] = "Invalid project name"
        /\ error_messages[k][3] = "length < 2 characters"

\* a split on single spaces yields one token more than there are spaces
Tokens == CountOf(cookiecutter.project_name, " ") + 1

(* C5 as stated: a project_name whose split on single spaces has more than *)
(* 4 tokens fails with the too-many-words message, and every one with 4    *)
(* tokens or fewer passes.                                                 *)
C5_AsStated ==
    Done("validate_project_name") =>
        /\ Tokens > 4 => TooManyWords
        /\ Tokens <= 4 => ~Reported("Invalid project name")

(* C5: a project_name whose split on single spaces has more than 4 tokens  *)
(* fails with the too-many-words message; one with 4 tokens or fewer       *)
(* passes when it has at least 2 characters and fails with the too-short   *)
(* message when it has fewer.                                              *)
C5_ProjectName ==
    Done("validate_project_name") =>
        /\ Tokens > 4 => TooManyWords
        /\ Tokens <= 4 /\ Len(cookiecutter.project_name) >= 2 =>
              ~Reported("Invalid project name")
        /\ Len(cookiecutter.project_name) < 2 => TooShort /\ ~TooManyWords

\* a name of one word that has more than 4 tokens because of its spaces
C5_Witness ==
    /\ Done("validate_project_name")
    /\ Tokens > 4
    /\ CountOf(cookiecutter.project_name, "a") = 1
    /\ TooManyWords

-----------------------------------------------------------------------------
AppNamePasses == ~Reported("Invalid package name")

\* a letter or underscore followed by one or more letters, digits or
\* underscores
IdentifierRule(s) ==
    /\ Len(s) >= 2
    /\ s[1] \in Letters \cup {"_"}
    /\ \A k \in 2..Len(s) : s[k] \in Letters \cup Digits \cup {"_"}

(* C6 as stated: "my_app2" and "_o" pass the app-name check, "2myapp",     *)
(* "_ok" and "_" fail it.                                                  *)
C6_AsStated ==
    Done("validate_app_name") =>
        /\ cookiecutter.app_name \in {<<"m", "y", "_", "a", "p", "p", "2">>, <<"_", "o">>} => AppNamePasses
        /\ cookiecutter.app_name \in {<<"2", "m", "y", "a", "p", "p">>, <<"_", "o", "k">>, <<"_">>} => ~AppNamePasses

(* C6: "my_app2", "_o" and "_ok" pass the app-name check, "2myapp" and "_"  *)
(* fail it; on these inputs a name passes exactly when it is a letter or   *)
(* underscore followed by one or more letters, digits or underscores.      *)
C6_AppName ==
    Done("validate_app_name") =>
        /\ cookiecutter.app_name \in {<<"m", "y", "_", "a", "p", "p", "2">>, <<"_", "o">>, <<"_", "o", "k">>} => AppNamePasses
        /\ cookiecutter.app_name \in {<<"2", "m", "y", "a", "p", "p">>, <<"_">>} => ~AppNamePasses
        /\ cookiecutter.app_name \in ListedAppNames =>
              (AppNamePasses <=> IdentifierRule(cookiecutter.app_name))

\* "_ok" has passed the check
C6_Witness ==
    /\ Done("validate_app_name")
    /\ cookiecutter.app_name = <<"_", "o", "k">>
    /\ AppNamePasses
    /\ LoopEnded

-----------------------------------------------------------------------------
NEmails == CountOf(cookiecutter.author_email, ",") + 1
NNames == CountOf(cookiecutter.author_name, ",") + 1

SomeEmailMalformed ==
    LET author_emails == Split(cookiecutter.author_email, ",") IN
    \E k \in 1..Len(author_emails) : ~EMAIL_REGEX(Strip(author_emails[k]))

(* C7 as stated: the authors check compares the number of names with the   *)
(* number of emails on every call, so a differing count is detected also   *)
(* when an email is malformed.                                             *)
C7_AsStated ==
    Done("validate_authors") =>
        /\ SomeEmailMalformed => Logged("Invalid author_email")
        /\ NEmails # NNames => Logged("Authors not matching number of emails")

(* C7: the authors check looks at the format of the trimmed emails first   *)
(* and stops at the first malformed one; it compares the number of names   *)
(* with the number of emails only when every email is well formed, so it   *)
(* reports one failure at most and a differing count goes undetected next  *)
(* to a malformed email.                                                   *)
C7_Authors ==
    Done("validate_authors") =>
        /\ Logged("Invalid author_email") <=> SomeEmailMalformed
        /\ Logged("Authors not matching number of emails") <=>
              (~SomeEmailMalformed /\ NEmails # NNames)
        /\ Reported("Invalid author_email") <=> Logged("Invalid author_email")
        /\ Reported("Authors not matching number of emails") <=>
              Logged("Authors not matching number of emails")
        /\ Len(SelectSeq(error_messages,
                         LAMBDA m : Owner(m) = "validate_authors")) <= 1

\* names "A,A" with emails "not-an-email": the email failure alone is found
C7_Witness ==
    /\ Done("validate_authors")
    /\ cookiecutter.author_email = NotAnEmail
    /\ NNames = 2
    /\ Logged("Invalid author_email")
    /\ ~Logged("Authors not matching number of emails")

-----------------------------------------------------------------------------
(* C8 as stated: the base-image check issues two lookups, for the cpu tag  *)
(* and then for the gpu tag, whether the first returned a response (of any *)
(* status) or timed out.                                                   *)
C8_AsStated ==
    (/\ Done("validate_docker_image")
     /\ lookups[1].outcome.exc \in {"none", "Timeout"}) =>
        /\ Len(lookups) = 2
        /\ lookups[1].url = CpuUrl
        /\ lookups[2].url = GpuUrl

(* C8: the base-image check issues the cpu-tag lookup first, and the       *)
(* gpu-tag lookup after it exactly when the first returned a non-error     *)
(* response or timed out; it fails with the invalid-image message exactly  *)
(* when a lookup it issued returned an HTTP error status.                  *)
C8_Lookups ==
    Done("validate_docker_image") =>
        /\ Len(lookups) \in {1, 2}
        /\ lookups[1].url = CpuUrl
        /\ Len(lookups) = 2 <=>
              (/\ lookups[1].outcome.exc \in {"none", "Timeout"}
               /\ ~RaisesHTTPError(lookups[1].outcome))
        /\ Len(lookups) = 2 => lookups[2].url = GpuUrl
        /\ Reported("Invalid docker image") <=>
              \E k \in 1..Len(lookups) : RaisesHTTPError(lookups[k].outcome)

\* the cpu lookup returned an HTTP error status and no gpu lookup followed
C8_Witness ==
    /\ Done("validate_docker_image")
    /\ Len(lookups) = 1
    /\ RaisesHTTPError(lookups[1].outcome)
    /\ Reported("Invalid docker image")

-----------------------------------------------------------------------------
(* C9: every lookup is given a timeout of about one second (2 s at most),  *)
(* so that a run blocks in its lookups for about two seconds in all (4 s   *)
(* at most), and issues no lookup after the two.                           *)
C9_TimeoutAboutOneSecond ==
    /\ \A k \in 1..Len(lookups) : lookups[k].timeout_ms <= 2000
    /\ blocked_ms <= 4000
    /\ Len(lookups) <= 2

-----------------------------------------------------------------------------
(* C10: when a lookup returns an HTTP error status, the message logged and *)
(* put in the run result names the image and the tag of that lookup.       *)
C10_MessageNamesTag ==
    \A k \in 1..Len(lookups) :
        RaisesHTTPError(lookups[k].outcome) =>
            /\ \E m \in 1..Len(ImageMessages) :
                  /\ ImageMessages[m][2] = lookups[k].url[3]
                  /\ ImageMessages[m][3] = lookups[k].url[5]
            /\ \E m \in 1..Len(ImageErrors) :
                  /\ ImageErrors[m].msg[2] = lookups[k].url[3]
                  /\ ImageErrors[m].msg[3] = lookups[k].url[5]

====
